---- MODULE Spec2Model ----
(***************************************************************************)
(* The HTTP/1.1 connection engine of trillium-http (src/http/src/conn.rs): *)
(* the head scanner (Conn::head), the head parser (Conn::new), the lazy    *)
(* request-body framing (Conn::initialize_request_body_state), the         *)
(* response encoder (Conn::encode) and the keep-alive / close / upgrade    *)
(* decision (Conn::finish), driven by the loop of Conn::map.               *)
(*                                                                         *)
(* The wire is a sequence of bytes.  CR, LF and NUL are single bytes; every *)
(* other byte of the model is a token that stands for a run of text free   *)
(* of CR and LF (a request line, a header line, a body byte).  The peer    *)
(* sends its bytes in segments; one read returns the bytes of the front    *)
(* segment that fit the buffer, and 0 bytes once the peer has sent all     *)
(* segments and closed.  Writes to the stream are taken to succeed.        *)
(***************************************************************************)
EXTENDS Integers, Sequences, FiniteSets, TLC

VARIABLES
    stream,    \* rw, read side: the segments the peer has still to deliver
    written,   \* rw, write side: everything written to the stream, in order
    pc,        \* "head": inside Conn::head; "app": the transformation f(conn) runs; "done": map returned
    buf,       \* Conn::head: buf
    len,       \* Conn::head: len
    conn,      \* the current Conn (meaningful while pc = "app")
    result,    \* what Conn::map returned ("running" until it returns)
    scan,      \* history of the current (or last) head scan
    exch       \* history of the current exchange

vars == <<stream, written, pc, buf, len, conn, result, scan, exch>>

----------------------------------------------------------------------------
(* Bytes *)

CR == "CR"

LF == "LF"

NUL == "NUL"

\* one byte of header-value text, used to make a head long
PAD == "x"

\* one byte of a request body
BODYBYTE == "b"

MAX_HEADERS == 128

MAX_HEAD_LENGTH == 8 * 1024

\* buf.extend(std::iter::repeat(0).take(100))
ReadIncrement == 100

None == -1

Min(a, b) == IF a < b THEN a ELSE b

MinOf(S) == CHOOSE m \in S : \A n \in S : m <= n

Zeros(n) == [i \in 1..n |-> NUL]

\* b"\r\n\r\n" starts at (1-based) position i of s
BoundaryAt(s, i) ==
    /\ i + 3 <= Len(s)
    /\ s[i] = CR /\ s[i + 1] = LF /\ s[i + 2] = CR /\ s[i + 3] = LF

\* TwoWaySearcher::new(b"\r\n\r\n").search_in(s): the 0-based index of the
\* first occurrence, or None
SearchIn(s) ==
    LET hits == {i \in 1..(Len(s) - 3) : BoundaryAt(s, i)}
    IN  IF hits = {} THEN None ELSE MinOf(hits) - 1

----------------------------------------------------------------------------
(* The stream *)

\* rw.read(&mut buf[len..]) with `space` bytes of room: the bytes returned
\* and the segments left.  An empty stream is a peer that has closed.
Read(strm, space) ==
    IF strm = <<>>
    THEN [data |-> <<>>, rest |-> <<>>]
    ELSE LET seg == Head(strm)
             n == Min(space, Len(seg))
         IN  [data |-> SubSeq(seg, 1, n),
              rest |-> IF n = Len(seg)
                       THEN Tail(strm)
                       ELSE <<SubSeq(seg, n + 1, Len(seg))>> \o Tail(strm)]

----------------------------------------------------------------------------
(* Conn::head *)

HeadersTooLong_Strict(l) == l > MAX_HEAD_LENGTH

\* if len >= MAX_HEAD_LENGTH { return Err(Error::HeadersTooLong) }
HeadersTooLong(l) == l >= MAX_HEAD_LENGTH

\* One iteration of the loop of Conn::head, from buf = b and len = l.
\* kind is "found" (the Ok return), "panic" (Vec::split_off past the end),
\* an error name, or "continue" (the loop goes round).
HeadIteration(b, l, strm) ==
    LET grown == b \o Zeros(ReadIncrement)
        r == Read(strm, Len(grown) - l)
        bytes == Len(r.data)
        \* the read overwrites buf[len .. len + bytes] and leaves the rest
        filled == SubSeq(grown, 1, l) \o r.data \o SubSeq(grown, l + bytes + 1, Len(grown))
        index == SearchIn(SubSeq(filled, l + 1, Len(filled)))
        base == [kind |-> "continue", buf |-> filled, len |-> l + bytes,
                 head |-> <<>>, extra |-> <<>>, data |-> r.data, rest |-> r.rest]
    IN  IF index # None
        THEN \* buf.truncate(len + bytes); buf.split_off(len + index + 4)
             IF l + index + 4 > l + bytes
             THEN [base EXCEPT !.kind = "panic", !.len = l]
             ELSE [base EXCEPT !.kind = "found", !.len = l,
                               !.head = SubSeq(filled, 1, l + index + 4),
                               !.extra = SubSeq(filled, l + index + 5, l + bytes)]
        ELSE IF bytes = 0
             THEN IF l + bytes = 0
                  THEN [base EXCEPT !.kind = "ClosedByClient"]
                  ELSE [base EXCEPT !.kind = "PartialHead"]
             ELSE IF HeadersTooLong(l + bytes)
                  THEN [base EXCEPT !.kind = "HeadersTooLong"]
                  ELSE base

----------------------------------------------------------------------------
(* Conn::new: the head parser *)

\* Request lines: each token stands for the text it spells.
RequestLines == {"GET / HTTP/1.1", "POST / HTTP/1.1", "HEAD / HTTP/1.1", "GET / HTTP/1.0"}

\* httparse_req.method, parsed by Method::from_str
MethodOf(line) ==
    CASE line = "GET / HTTP/1.1" -> "GET"
      [] line = "POST / HTTP/1.1" -> "POST"
      [] line = "HEAD / HTTP/1.1" -> "HEAD"
      [] line = "GET / HTTP/1.0" -> "GET"

\* httparse_req.version: Some(1) for HTTP/1.1, Some(0) for HTTP/1.0
VersionOf(line) == IF line = "GET / HTTP/1.0" THEN 0 ELSE 1

HeaderNames ==
    {"connection", "content-length", "content-type", "date", "expect",
     "transfer-encoding", "upgrade", "x-pad"}

\* Header lines: each token stands for the text it spells.
HeaderLines ==
    {"Connection: close", "Connection: upgrade", "Upgrade: websocket",
     "Connection: Close", "Connection: keep-alive, Upgrade", "Content-Length: 1", "Content-Length: abc",
     "Transfer-Encoding: chunked", "Expect: 100-continue", "X-Pad: "}

HeaderNameOf(line) ==
    CASE line \in {"Connection: close", "Connection: upgrade", "Connection: Close",
                    "Connection: keep-alive, Upgrade"} -> "connection"
      [] line = "Upgrade: websocket" -> "upgrade"
      [] line \in {"Content-Length: 1", "Content-Length: abc"} -> "content-length"
      [] line = "Transfer-Encoding: chunked" -> "transfer-encoding"
      [] line = "Expect: 100-continue" -> "expect"
      [] line = "X-Pad: " -> "x-pad"

HeaderValueOf(line) ==
    CASE line = "Connection: close" -> "close"
      [] line = "Connection: Close" -> "Close"
      [] line = "Connection: upgrade" -> "upgrade"
      [] line = "Connection: keep-alive, Upgrade" -> "keep-alive, Upgrade"
      [] line = "Upgrade: websocket" -> "websocket"
      [] line = "Content-Length: 1" -> "1"
      [] line = "Content-Length: abc" -> "abc"
      [] line = "Transfer-Encoding: chunked" -> "chunked"
      [] line = "Expect: 100-continue" -> "100-continue"
      [] line = "X-Pad: " -> ""

\* the value of a header line whose token is followed by further text
LongValue == "x.."

\* Headers::new()
NoHeaders == [n \in HeaderNames |-> <<>>]

\* Headers::insert: replaces every value the name had
Insert(headers, name, value) == [headers EXCEPT ![name] = <<value>>]

\* Headers::insert(name, values) with several values
InsertValues(headers, name, values) == [headers EXCEPT ![name] = values]

\* Headers::get(name).is_some()
Has(headers, name) == headers[name] # <<>>

\* the end of the run of PAD bytes that starts at position i of b
PadEnd(b, i) ==
    CHOOSE k \in i..(Len(b) + 1) :
        /\ k = Len(b) + 1 \/ b[k] # PAD
        /\ \A j \in i..(k - 1) : b[j] = PAD

\* httparse: a line end (CRLF or a bare LF) at position i of b: the position
\* after it, 0 when b ends first, None when something else stands there
Newline(b, i) ==
    IF i > Len(b) THEN 0
    ELSE IF b[i] = LF THEN i + 1
    ELSE IF b[i] # CR THEN None
    ELSE IF i + 1 > Len(b) THEN 0
    ELSE IF b[i + 1] = LF THEN i + 2 ELSE None

\* httparse: skip the empty lines before the request line
RECURSIVE SkipEmptyLines(_, _)
SkipEmptyLines(b, i) ==
    IF i > Len(b) THEN 0
    ELSE IF b[i] \notin {CR, LF} THEN i
    ELSE LET n == Newline(b, i)
         IN  IF n \in {0, None} THEN n ELSE SkipEmptyLines(b, n)

\* httparse: the header lines from position i of b up to the empty line
RECURSIVE ParseHeaders(_, _, _)
ParseHeaders(b, i, acc) ==
    IF i > Len(b) THEN [status |-> "Partial", headers |-> acc]
    ELSE IF b[i] \in {CR, LF}
    THEN LET n == Newline(b, i)
         IN  [status |-> IF n = 0 THEN "Partial"
                         ELSE IF n = None THEN "Error" ELSE "Complete",
              headers |-> acc]
    ELSE IF Len(acc) = MAX_HEADERS \/ b[i] \notin HeaderLines
    THEN [status |-> "Error", headers |-> acc]
    ELSE LET e == PadEnd(b, i + 1)
             n == Newline(b, e)
             value == IF e = i + 1 THEN HeaderValueOf(b[i]) ELSE LongValue
         IN  IF n = 0 THEN [status |-> "Partial", headers |-> acc]
             ELSE IF n = None THEN [status |-> "Error", headers |-> acc]
             ELSE ParseHeaders(b, n, Append(acc, <<HeaderNameOf(b[i]), value>>))

\* httparse::Request::parse(&buf[..])
Httparse(b) ==
    LET i == SkipEmptyLines(b, 1)
        none == [status |-> "Partial", line |-> "", headers |-> <<>>]
    IN  IF i = 0 THEN none
        ELSE IF i = None \/ b[i] \notin RequestLines
        THEN [none EXCEPT !.status = "Error"]
        ELSE LET n == Newline(b, i + 1)
             IN  IF n = 0 THEN none
                 ELSE IF n = None THEN [none EXCEPT !.status = "Error"]
                 ELSE LET h == ParseHeaders(b, n, <<>>)
                      IN  [status |-> h.status, line |-> b[i], headers |-> h.headers]

\* for header in httparse_req.headers.iter() { request_headers.insert(..) }
RECURSIVE InsertAll(_, _)
InsertAll(headers, list) ==
    IF list = <<>> THEN headers
    ELSE InsertAll(Insert(headers, list[1][1], list[1][2]), Tail(list))

\* response_body: None
NoBody == [some |-> FALSE, known |-> TRUE, data |-> ""]

Start == [kind |-> "Start", current_index |-> 0, total_length |-> 0, remaining |-> 0]

\* RequestBodyState::End
End == [Start EXCEPT !.kind = "End"]

NoConn ==
    [request_headers |-> NoHeaders, method |-> "", buffer |-> <<>>,
     request_body_state |-> Start, status |-> "", response_headers |-> NoHeaders,
     response_body |-> NoBody, state |-> {}]

\* Conn::new after Self::head returned (buf, extra_bytes): the error, or
\* "Ok" and the new Conn
ConnNew(head, extra_bytes) ==
    LET req == Httparse(head)
        err(e) == [result |-> e, conn |-> NoConn]
    IN  IF req.status = "Error" THEN err("Err(Httparse)")
        ELSE IF req.status = "Partial" THEN err("Err(PartialHead)")
        ELSE IF VersionOf(req.line) # 1 THEN err("Err(UnsupportedVersion)")
        ELSE [result |-> "Ok",
              conn |-> [NoConn EXCEPT
                          !.request_headers = InsertAll(NoHeaders, req.headers),
                          !.method = MethodOf(req.line),
                          !.buffer = extra_bytes]]

----------------------------------------------------------------------------
(* Header values *)

\* str::to_ascii_lowercase
Lower(v) ==
    CASE v = "Close" -> "close"
      [] v = "Upgrade" -> "upgrade"
      [] v = " Upgrade" -> " upgrade"
      [] v = "keep-alive, Upgrade" -> "keep-alive, upgrade"
      [] OTHER -> v

\* str::eq_ignore_ascii_case
EqIgnoreAsciiCase(a, b) == Lower(a) = Lower(b)

\* str::split(","), the pieces in order
SplitComma(v) ==
    IF v = "keep-alive, Upgrade" THEN <<"keep-alive", " Upgrade">> ELSE <<v>>

\* HeaderValues::as_str: the last value
AsStr(values) == values[Len(values)]

\* Headers::contains_ignore_ascii_case(name, needle)
ContainsIgnoreAsciiCase(headers, name, needle) ==
    /\ Has(headers, name)
    /\ \E i \in 1..Len(headers[name]) : EqIgnoreAsciiCase(headers[name][i], needle)

\* str::parse::<u64>() of a trimmed Content-Length value; None when it fails
ParseLength(v) ==
    CASE v = "0" -> 0
      [] v = "1" -> 1
      [] v = "2" -> 2
      [] OTHER -> None

----------------------------------------------------------------------------
(* The request body *)

Continue100 == [kind |-> "interim", name |-> "HTTP/1.1 100 Continue", value |-> ""]

\* Conn::needs_100_continue
Needs100Continue(c) ==
    ContainsIgnoreAsciiCase(c.request_headers, "expect", "100-continue")

\* Conn::request_content_length: "None", "Err" or the length
RequestContentLength(c) ==
    IF ~Has(c.request_headers, "content-length") THEN "None"
    ELSE IF ParseLength(AsStr(c.request_headers["content-length"])) = None THEN "Err"
    ELSE "Some"

InitializeRequestBodyState_NoConflictCheck(c) ==
    LET chunked == ContainsIgnoreAsciiCase(c.request_headers, "transfer-encoding", "chunked")
        length == RequestContentLength(c)
    IN  IF c.request_body_state.kind # "Start"
        THEN [result |-> "Ok", state |-> c.request_body_state, wrote |-> <<>>]
        ELSE [result |-> IF length = "Err" THEN "Err(MalformedHeader)" ELSE "Ok",
              state |-> IF length = "Err" THEN c.request_body_state
                        ELSE IF chunked THEN [Start EXCEPT !.kind = "Chunked"]
                        ELSE IF length = "Some"
                        THEN [Start EXCEPT !.kind = "FixedLength",
                                !.total_length =
                                    ParseLength(AsStr(c.request_headers["content-length"]))]
                        ELSE End,
              wrote |-> IF Needs100Continue(c) THEN <<Continue100>> ELSE <<>>]

InitializeRequestBodyState_Always(c) ==
    LET chunked == ContainsIgnoreAsciiCase(c.request_headers, "transfer-encoding", "chunked")
        length == RequestContentLength(c)
        wrote == IF Needs100Continue(c) THEN <<Continue100>> ELSE <<>>
    IN  IF length = "Err"
        THEN [result |-> "Err(MalformedHeader)", state |-> c.request_body_state,
              wrote |-> wrote]
        ELSE IF length = "Some" /\ chunked
        THEN [result |-> "Err(UnexpectedHeader)", state |-> c.request_body_state,
              wrote |-> wrote]
        ELSE [result |-> "Ok",
              state |-> IF chunked THEN [Start EXCEPT !.kind = "Chunked"]
                        ELSE IF length = "Some"
                        THEN [Start EXCEPT !.kind = "FixedLength",
                                !.total_length =
                                    ParseLength(AsStr(c.request_headers["content-length"]))]
                        ELSE End,
              wrote |-> wrote]

\* Conn::initialize_request_body_state: its result, the request body state
\* it leaves and what it wrote to the stream
InitializeRequestBodyState(c) ==
    LET chunked == ContainsIgnoreAsciiCase(c.request_headers, "transfer-encoding", "chunked")
        length == RequestContentLength(c)
        wrote == IF Needs100Continue(c) THEN <<Continue100>> ELSE <<>>
    IN  IF c.request_body_state.kind # "Start"
        THEN [result |-> "Ok", state |-> c.request_body_state, wrote |-> <<>>]
        ELSE IF length = "Err"
        THEN [result |-> "Err(MalformedHeader)", state |-> c.request_body_state,
              wrote |-> wrote]
        ELSE IF length = "Some" /\ chunked
        THEN [result |-> "Err(UnexpectedHeader)", state |-> c.request_body_state,
              wrote |-> wrote]
        ELSE [result |-> "Ok",
              state |-> IF chunked THEN [Start EXCEPT !.kind = "Chunked"]
                        ELSE IF length = "Some"
                        THEN [Start EXCEPT !.kind = "FixedLength",
                                !.total_length =
                                    ParseLength(AsStr(c.request_headers["content-length"]))]
                        ELSE End,
              wrote |-> wrote]

\* A read of the request body in the FixedLength state: at most
\* total_length - current_index bytes, from the Conn's buffer if it holds
\* any and else from the stream; current_index advances and the state is
\* End once it reaches total_length. In any other state nothing is read.
ReadBody(c, strm) ==
    LET s == c.request_body_state
        want == s.total_length - s.current_index
        fromBuffer == c.buffer # <<>>
        bytes == IF s.kind # "FixedLength" THEN 0
                 ELSE IF fromBuffer THEN Min(want, Len(c.buffer))
                 ELSE IF strm = <<>> THEN 0
                 ELSE Min(want, Len(strm[1]))
        index == s.current_index + bytes
    IN  [state |-> IF s.kind # "FixedLength" THEN s
                   ELSE IF index = s.total_length THEN End
                   ELSE [s EXCEPT !.current_index = index],
         buffer |-> IF fromBuffer THEN SubSeq(c.buffer, bytes + 1, Len(c.buffer))
                    ELSE c.buffer,
         rest |-> IF fromBuffer \/ bytes = 0 THEN strm ELSE Read(strm, bytes).rest,
         bytes |-> bytes]

----------------------------------------------------------------------------
(* The response *)

\* the bodies the transformation may set: one of known length, one streamed
Bodies ==
    {[some |-> TRUE, known |-> TRUE, data |-> "hi"],
     [some |-> TRUE, known |-> FALSE, data |-> "hi"]}

\* Body::len of the model's data
DataLen(data) == IF data = "" THEN 0 ELSE 2

\* Conn::set_body
SetBody(c, body) ==
    [c EXCEPT !.response_headers =
                  IF Has(@, "content-type") THEN @ ELSE Insert(@, "content-type", "text/plain"),
              !.response_body = body]

\* Conn::body_len: None for a body of unknown length
BodyLen(c) ==
    IF ~c.response_body.some THEN 0
    ELSE IF c.response_body.known THEN DataLen(c.response_body.data) ELSE None

FinalizeHeaders_DateNow(c) ==
    LET framed ==
            IF Has(c.response_headers, "transfer-encoding") THEN c.response_headers
            ELSE IF BodyLen(c) # None
            THEN Insert(c.response_headers, "content-length", ToString(BodyLen(c)))
            ELSE Insert(c.response_headers, "transfer-encoding", "chunked")
    IN  Insert(framed, "date", "now")

\* Conn::finalize_headers
FinalizeHeaders(c) ==
    LET framed ==
            IF Has(c.response_headers, "transfer-encoding") THEN c.response_headers
            ELSE IF BodyLen(c) # None
            THEN Insert(c.response_headers, "content-length", ToString(BodyLen(c)))
            ELSE Insert(c.response_headers, "transfer-encoding", "chunked")
    IN  IF Has(framed, "date") THEN framed ELSE Insert(framed, "date", "now")

\* the header names in lexicographic order
SortedHeaderNames ==
    <<"connection", "content-length", "content-type", "date", "expect",
      "transfer-encoding", "upgrade", "x-pad">>

StatusLine_DefaultOk(status) ==
    [kind |-> "status",
     name |-> CASE status = "101" -> "HTTP/1.1 101 Switching Protocols"
                [] status = "404" -> "HTTP/1.1 404 Not Found"
                [] OTHER -> "HTTP/1.1 200 OK",
     value |-> ""]

\* format!("HTTP/1.1 {} {}\r\n", status, status.canonical_reason())
StatusLine(status) ==
    [kind |-> "status",
     name |-> CASE status = "200" -> "HTTP/1.1 200 OK"
                [] status = "101" -> "HTTP/1.1 101 Switching Protocols"
                [] OTHER -> "HTTP/1.1 404 Not Found",
     value |-> ""]

RECURSIVE HeaderLinesOf(_, _)
HeaderLinesOf(headers, names) ==
    IF names = <<>> THEN <<>>
    ELSE [i \in 1..Len(headers[names[1]]) |->
            [kind |-> "header", name |-> names[1], value |-> headers[names[1]][i]]]
         \o HeaderLinesOf(headers, Tail(names))

BlankLine == [kind |-> "blank", name |-> "", value |-> ""]

\* the place of each header name in the lexicographic order
NameIndex ==
    [n \in HeaderNames |->
        CHOOSE i \in 1..Len(SortedHeaderNames) : SortedHeaderNames[i] = n]

\* str::cmp on header names: a comes before b
Before(a, b) == NameIndex[a] < NameIndex[b]

\* the order in which Headers::iter yields the names, that of a hash map:
\* any order, here one that is not sorted
IterationOrder ==
    <<"upgrade", "date", "content-type", "x-pad", "connection",
      "transfer-encoding", "expect", "content-length">>

Present(headers, name) == headers[name] # <<>>

\* self.response_headers.iter().collect::<Vec<_>>(): the names that have values
Iter(headers) == SelectSeq(IterationOrder, LAMBDA n : Present(headers, n))

RECURSIVE InsertSorted(_, _)
\* name put into a sorted sequence of names, before the first that follows it
InsertSorted(name, sorted) ==
    IF sorted = <<>> THEN <<name>>
    ELSE IF Before(name, sorted[1]) THEN <<name>> \o sorted
    ELSE <<sorted[1]>> \o InsertSorted(name, Tail(sorted))

SortByName_Unsorted(names) == names

RECURSIVE SortByName(_)
\* headers.sort_unstable_by_key(|(h, _)| h.as_str())
SortByName(names) ==
    IF names = <<>> THEN <<>>
    ELSE InsertSorted(names[1], SortByName(Tail(names)))

\* Conn::send_headers: what it writes
SendHeaders(c) ==
    <<StatusLine(c.status)>>
    \o HeaderLinesOf(FinalizeHeaders(c), SortByName(Iter(FinalizeHeaders(c))))
    \o <<BlankLine>>

\* io::copy(BodyEncoder::new(body), &mut self.rw): what it writes
BodyEncoder(body) ==
    IF body.known
    THEN <<[kind |-> "body", name |-> "raw", value |-> body.data]>>
    ELSE <<[kind |-> "body", name |-> "chunk", value |-> body.data],
           [kind |-> "body", name |-> "last-chunk", value |-> ""]>>

\* Conn::should_close
ShouldClose(c) ==
    \/ ContainsIgnoreAsciiCase(c.request_headers, "connection", "close")
    \/ ContainsIgnoreAsciiCase(c.response_headers, "connection", "close")

\* Conn::should_upgrade
ShouldUpgrade(c) ==
    /\ Has(c.request_headers, "upgrade")
    /\ Has(c.request_headers, "connection")
    /\ LET pieces == SplitComma(AsStr(c.request_headers["connection"]))
       IN  \E i \in 1..Len(pieces) : EqIgnoreAsciiCase(pieces[i], "upgrade")
    /\ c.status = "101"

Encoded_BodyFirst(c) ==
    (IF c.method # "HEAD" /\ c.response_body.some
     THEN BodyEncoder(c.response_body) ELSE <<>>)
    \o SendHeaders(c)

Encoded_BodyForHead(c) ==
    SendHeaders(c)
    \o (IF c.response_body.some THEN BodyEncoder(c.response_body) ELSE <<>>)

\* what Conn::encode writes before it calls finish
Encoded(c) ==
    SendHeaders(c)
    \o (IF c.method # "HEAD" /\ c.response_body.some
        THEN BodyEncoder(c.response_body) ELSE <<>>)

\* the Conn that Conn::encode hands to finish
AfterEncode(c) ==
    [c EXCEPT !.response_headers = FinalizeHeaders(c),
              !.response_body = IF c.method # "HEAD" THEN NoBody ELSE @]

Finish_UpgradeFirst(c) ==
    IF ShouldUpgrade(c) THEN "Upgrade"
    ELSE IF ShouldClose(c) THEN "Close"
    ELSE "Next"

\* Conn::finish: "Close", "Upgrade" or "Next" (it calls self.next())
Finish(c) ==
    IF ShouldClose(c) THEN "Close"
    ELSE IF ShouldUpgrade(c) THEN "Upgrade"
    ELSE "Next"

----------------------------------------------------------------------------
(* What the peer sends *)

\* how many requests the transformation touches the request body at most
MaxTouches == 2

\* in how many places the peer's bytes are cut into segments at most
MaxCuts == 1

RECURSIVE Lines(_)
Lines(headers) ==
    IF headers = <<>> THEN <<>> ELSE <<headers[1], CR, LF>> \o Lines(Tail(headers))

\* the bytes of a request: its line, its header lines, the empty line, its body
Request(line, headers, body) == <<line, CR, LF>> \o Lines(headers) \o <<CR, LF>> \o body

Get == Request("GET / HTTP/1.1", <<>>, <<>>)

Requests ==
    {Get,
     Request("GET / HTTP/1.1", <<"Connection: close">>, <<>>),
     Request("GET / HTTP/1.1", <<"Connection: Close">>, <<>>),
     Request("GET / HTTP/1.1", <<"Connection: close", "Connection: upgrade">>, <<>>),
     Request("GET / HTTP/1.1", <<"Connection: upgrade", "Upgrade: websocket">>, <<>>),
     Request("GET / HTTP/1.1", <<"Connection: keep-alive, Upgrade", "Upgrade: websocket">>, <<>>),
     Request("HEAD / HTTP/1.1", <<>>, <<>>),
     Request("GET / HTTP/1.0", <<>>, <<>>),
     Request("POST / HTTP/1.1", <<"Content-Length: 1">>, <<BODYBYTE>>),
     Request("POST / HTTP/1.1", <<"Expect: 100-continue">>, <<>>),
     Request("POST / HTTP/1.1", <<"Transfer-Encoding: chunked">>, <<>>),
     Request("POST / HTTP/1.1", <<"Content-Length: 1", "Transfer-Encoding: chunked">>, <<>>),
     Request("POST / HTTP/1.1", <<"Transfer-Encoding: chunked", "Content-Length: 1">>, <<>>),
     Request("POST / HTTP/1.1", <<"Content-Length: abc", "Transfer-Encoding: chunked">>, <<>>),
     Request("POST / HTTP/1.1",
             <<"Expect: 100-continue", "Content-Length: 1", "Transfer-Encoding: chunked">>, <<>>)}

\* what the peer sends before it closes: nothing, a request, a request and
\* a GET, each possibly followed by the start of a further request
Wires ==
    LET whole == {<<>>} \cup Requests \cup {r \o Get : r \in Requests}
                 \cup {Get \o Get \o Get, <<CR, LF, CR, LF>>, <<"X-Pad: ", CR, LF, CR, LF>>}
    IN  whole \cup {w \o <<"GET / HTTP/1.1">> : w \in {<<>>, Get, Get \o Get}}
              \cup {Get \o <<"GET / HTTP/1.1", CR, LF>>}

RECURSIVE CutSets(_, _)
\* the sets of at most k cut positions in n bytes
CutSets(n, k) ==
    IF k = 0 THEN {{}}
    ELSE LET fewer == CutSets(n, k - 1)
         IN  fewer \cup {S \cup {c} : S \in fewer, c \in 1..(n - 1)}

RECURSIVE Segments(_, _)
\* bytes cut into segments after the positions of cuts
Segments(bytes, cuts) ==
    IF bytes = <<>> THEN <<>>
    ELSE IF cuts = {} THEN <<bytes>>
    ELSE LET c == MinOf(cuts)
         IN  <<SubSeq(bytes, 1, c)>>
             \o Segments(SubSeq(bytes, c + 1, Len(bytes)), {d - c : d \in cuts \ {c}})

----------------------------------------------------------------------------
(* Conn::map *)

NewScan(carry) ==
    [carry |-> carry, read |-> <<>>, outcome |-> "scanning", head |-> <<>>, extra |-> <<>>]

NewExchange(n, fatal) ==
    [n |-> n, touches |-> 0, continues |-> 0, first |-> "", last |-> "", fatal |-> fatal,
     reads |-> 0]

\* Conn::map(rw, f) has been called and is about to run Conn::new(rw, None)
Start0 ==
    /\ written = <<>>
    /\ pc = "head"
    /\ buf = <<>>
    /\ len = 0
    /\ conn = NoConn
    /\ result = "running"
    /\ scan = NewScan(<<>>)
    /\ exch = NewExchange(0, FALSE)

Init ==
    /\ \E wire \in Wires : \E cuts \in CutSets(Len(wire), MaxCuts) :
           stream = Segments(wire, cuts)
    /\ Start0

Iteration == HeadIteration(buf, len, stream)

\* the first scan is that of map's own Conn::new; the later ones are finish's
InFinish == exch.n > 0

\* Conn::head: no boundary yet, the loop goes round
HeadContinue ==
    /\ pc = "head"
    /\ Iteration.kind = "continue"
    /\ buf' = Iteration.buf
    /\ len' = Iteration.len
    /\ stream' = Iteration.rest
    /\ scan' = [scan EXCEPT !.read = @ \o Iteration.data]
    /\ UNCHANGED <<written, pc, conn, result, exch>>

\* Conn::head returns Ok and Conn::new builds the Conn, which f receives
HeadParsed ==
    /\ pc = "head"
    /\ Iteration.kind = "found"
    /\ LET new == ConnNew(Iteration.head, Iteration.extra)
       IN  /\ new.result = "Ok"
           /\ conn' = new.conn
    /\ pc' = "app"
    /\ buf' = <<>>
    /\ len' = 0
    /\ stream' = Iteration.rest
    /\ written' = <<>>
    /\ scan' = [scan EXCEPT !.read = @ \o Iteration.data, !.outcome = "found",
                            !.head = Iteration.head, !.extra = Iteration.extra]
    /\ exch' = NewExchange(exch.n + 1, exch.fatal)
    /\ UNCHANGED result

\* Conn::head returns Ok and Conn::new fails on the head: map returns the error
HeadRejected ==
    /\ pc = "head"
    /\ Iteration.kind = "found"
    /\ LET new == ConnNew(Iteration.head, Iteration.extra)
       IN  /\ new.result # "Ok"
           /\ result' = new.result
    /\ pc' = "done"
    /\ buf' = <<>>
    /\ len' = 0
    /\ stream' = Iteration.rest
    /\ scan' = [scan EXCEPT !.read = @ \o Iteration.data, !.outcome = "found",
                            !.head = Iteration.head, !.extra = Iteration.extra]
    /\ exch' = [exch EXCEPT !.fatal = TRUE]
    /\ UNCHANGED <<written, conn>>

\* Conn::head: buf.split_off(len + index + 4) past the end of buf
HeadPanic ==
    /\ pc = "head"
    /\ Iteration.kind = "panic"
    /\ pc' = "done"
    /\ result' = "panic"
    /\ buf' = <<>>
    /\ len' = 0
    /\ stream' = Iteration.rest
    /\ scan' = [scan EXCEPT !.read = @ \o Iteration.data, !.outcome = "panic"]
    /\ UNCHANGED <<written, conn, exch>>

\* Conn::head returns an error: map returns it, but for the ClosedByClient
\* that finish turns into ConnectionStatus::Close
HeadFailed ==
    /\ pc = "head"
    /\ Iteration.kind \in {"ClosedByClient", "PartialHead", "HeadersTooLong"}
    /\ pc' = "done"
    /\ result' = IF InFinish /\ Iteration.kind = "ClosedByClient"
                 THEN "Ok(None)"
                 ELSE "Err(" \o Iteration.kind \o ")"
    /\ buf' = <<>>
    /\ len' = 0
    /\ stream' = Iteration.rest
    /\ scan' = [scan EXCEPT !.read = @ \o Iteration.data, !.outcome = Iteration.kind]
    /\ UNCHANGED <<written, conn, exch>>

\* f calls conn.request_body(): initialize_request_body_state().await.ok()
AppRequestBody ==
    /\ pc = "app"
    /\ exch.touches < MaxTouches
    /\ LET init == InitializeRequestBodyState(conn)
       IN  /\ conn' = [conn EXCEPT !.request_body_state = init.state]
           /\ written' = written \o init.wrote
           /\ exch' = [exch EXCEPT !.touches = @ + 1,
                                   !.continues = @ + Len(init.wrote),
                                   !.first = IF exch.touches = 0 THEN init.result ELSE @,
                                   !.last = init.result,
                                   !.fatal = @ \/ init.result = "Err(UnexpectedHeader)"]
    /\ UNCHANGED <<stream, pc, buf, len, result, scan>>

\* f reads from the RequestBody that conn.request_body() returned
AppReadBody ==
    /\ pc = "app"
    /\ exch.touches > 0
    /\ LET read == ReadBody(conn, stream)
       IN  /\ read.bytes > 0
           /\ conn' = [conn EXCEPT !.request_body_state = read.state,
                                   !.buffer = read.buffer]
           /\ stream' = read.rest
    /\ exch' = [exch EXCEPT !.reads = @ + 1]
    /\ UNCHANGED <<written, pc, buf, len, result, scan>>

\* f calls conn.set_status(status)
AppSetStatus ==
    /\ pc = "app"
    /\ conn.status = ""
    /\ \E status \in {"200", "101"} : conn' = [conn EXCEPT !.status = status]
    /\ UNCHANGED <<stream, written, pc, buf, len, result, scan, exch>>

\* the headers the transformation may set on the response
AppHeaders ==
    {<<"connection", <<"close">>>>, <<"content-length", <<"5">>>>,
     <<"transfer-encoding", <<"gzip", "chunked">>>>, <<"date", <<"then">>>>}

\* f calls conn.response_headers().insert(name, values); a transformation
\* that sets a Date sets no other of these headers
AppSetHeader ==
    /\ pc = "app"
    /\ \E h \in AppHeaders :
           /\ ~Has(conn.response_headers, h[1])
           /\ \A g \in AppHeaders \ {h} :
                  (h[1] = "date" \/ g[1] = "date") => ~Has(conn.response_headers, g[1])
           /\ conn' = [conn EXCEPT !.response_headers = InsertValues(@, h[1], h[2])]
    /\ UNCHANGED <<stream, written, pc, buf, len, result, scan, exch>>

\* f calls conn.set_body(body)
AppSetBody ==
    /\ pc = "app"
    /\ ~conn.response_body.some
    /\ \E body \in Bodies : conn' = SetBody(conn, body)
    /\ UNCHANGED <<stream, written, pc, buf, len, result, scan, exch>>

\* f returns the Conn and map encodes it; finish answers Close
EncodeClose ==
    /\ pc = "app"
    /\ Finish(AfterEncode(conn)) = "Close"
    /\ written' = written \o Encoded(conn)
    /\ conn' = AfterEncode(conn)
    /\ pc' = "done"
    /\ result' = "Ok(None)"
    /\ UNCHANGED <<stream, buf, len, scan, exch>>

\* f returns the Conn and map encodes it; finish answers Upgrade
EncodeUpgrade ==
    /\ pc = "app"
    /\ Finish(AfterEncode(conn)) = "Upgrade"
    /\ written' = written \o Encoded(conn)
    /\ conn' = AfterEncode(conn)
    /\ pc' = "done"
    /\ result' = "Ok(Some(upgrade))"
    /\ UNCHANGED <<stream, buf, len, scan, exch>>

\* f returns the Conn and map encodes it; finish calls next, which enters
\* Conn::head with the Conn's buffer
EncodeNext ==
    /\ pc = "app"
    /\ Finish(AfterEncode(conn)) = "Next"
    /\ written' = written \o Encoded(conn)
    /\ conn' = AfterEncode(conn)
    /\ pc' = "head"
    /\ buf' = conn.buffer
    /\ len' = 0
    /\ scan' = NewScan(conn.buffer)
    /\ UNCHANGED <<stream, result, exch>>

Next ==
    \/ HeadContinue
    \/ HeadParsed
    \/ HeadRejected
    \/ HeadPanic
    \/ HeadFailed
    \/ AppRequestBody
    \/ AppReadBody
    \/ AppSetStatus
    \/ AppSetHeader
    \/ AppSetBody
    \/ EncodeClose
    \/ EncodeUpgrade
    \/ EncodeNext

Spec == Init /\ [][Next]_vars

----------------------------------------------------------------------------
(* The claims *)

\* the bytes the current scan was given: the carried-over bytes, then the
\* bytes its reads returned
Delivered == scan.carry \o scan.read

\* the length of s up to and including its first boundary, 0 without one
FirstHeadLen(s) == IF SearchIn(s) = None THEN 0 ELSE SearchIn(s) + 4

FirstHead(s) == SubSeq(s, 1, FirstHeadLen(s))

AfterFirstHead(s) == SubSeq(s, FirstHeadLen(s) + 1, Len(s))

\* C1: a keep-alive scan that starts from a non-empty carried-over buffer
\* scans the carried-over bytes followed by the bytes read, none lost or
\* overwritten: the head it returns is the first head of those bytes, and a
\* complete head in the carried-over bytes is the head it returns.
C1_CarryOverIsScanned ==
    (scan.carry # <<>> /\ scan.outcome # "scanning") =>
        /\ scan.outcome = "found" => scan.head = FirstHead(Delivered)
        /\ SearchIn(scan.carry) # None =>
               scan.outcome = "found" /\ scan.head = FirstHead(scan.carry)

\* C2: once the bytes the stream delivered hold a boundary within the first
\* MAX_HEAD_LENGTH bytes, the scan has succeeded at its first occurrence,
\* however the bytes were split across reads.
C2_BoundaryIsDetected ==
    (scan.carry = <<>> /\ SearchIn(scan.read) # None
        /\ FirstHeadLen(scan.read) <= MAX_HEAD_LENGTH) =>
        scan.outcome = "found" /\ Len(scan.head) = FirstHeadLen(scan.read)

\* C3: a successful scan returns the bytes through the first boundary as the
\* head and exactly the bytes read after it as the extra bytes, which
\* Conn::new stores as the Conn's buffer.
C3_HeadAndExtraBytes ==
    scan.outcome = "found" =>
        /\ scan.head = FirstHead(Delivered)
        /\ scan.extra = AfterFirstHead(Delivered)
        /\ (pc = "app" /\ exch.reads = 0) => conn.buffer = scan.extra

\* C6: the scan fails with ClosedByClient only when nothing at all was
\* accumulated for the head, carried-over bytes included; a close after some
\* bytes and no boundary is a PartialHead.
C6_ClosedByClientOnlyWhenEmpty ==
    scan.outcome \in {"ClosedByClient", "PartialHead"} =>
        (scan.outcome = "ClosedByClient" <=> Delivered = <<>>)

\* C7: a close of the peer with no bytes pending at a request boundary,
\* before the first request or after an exchange, ends map with Ok(None).
C7_CleanCloseIsNoError ==
    (scan.outcome = "ClosedByClient" /\ Delivered = <<>>) => result = "Ok(None)"

BothFramingHeaders ==
    /\ Has(conn.request_headers, "content-length")
    /\ ContainsIgnoreAsciiCase(conn.request_headers, "transfer-encoding", "chunked")

C10_ContinueAtMostOnce ==
    /\ exch.continues <= 1
    /\ exch.continues > 0 => exch.touches > 0 /\ Needs100Continue(conn)

----------------------------------------------------------------------------
(* Heads about as long as MAX_HEAD_LENGTH *)

\* by how many bytes a long head is shorter or longer than MAX_HEAD_LENGTH at most
MaxOver == 2

\* a request whose head is n bytes long, made long by one header value
LongRequest(line, headers, n) ==
    <<line, CR, LF>> \o Lines(headers) \o <<"X-Pad: ">>
    \o [i \in 1..(n - 8 - 3 * Len(headers)) |-> PAD] \o <<CR, LF, CR, LF>>

LongWires ==
    LET lengths == (MAX_HEAD_LENGTH - MaxOver)..(MAX_HEAD_LENGTH + MaxOver)
    IN  {LongRequest("GET / HTTP/1.1", <<>>, n) : n \in lengths}
        \cup {LongRequest("GET / HTTP/1.1", <<>>, n) \o Get : n \in lengths}
        \cup {Get \o LongRequest("GET / HTTP/1.1", <<>>, n) :
                 n \in {MAX_HEAD_LENGTH, MAX_HEAD_LENGTH + ReadIncrement}}
        \cup {LongRequest("GET / HTTP/1.1", <<"Connection: upgrade", "Upgrade: websocket">>,
                          MAX_HEAD_LENGTH),
              LongRequest("GET / HTTP/1.0", <<>>, MAX_HEAD_LENGTH),
              LongRequest("POST / HTTP/1.1", <<"Content-Length: 1">>, MAX_HEAD_LENGTH)
                  \o <<BODYBYTE>>}

\* the sizes of the first segment of a long head: with 92 the bytes read
\* come to exactly MAX_HEAD_LENGTH after 82 reads
FirstSegments == {92, 100}

\* bytes cut into segments of `size` bytes (the last one may be shorter)
Chunks(bytes, size) ==
    [k \in 1..((Len(bytes) + size - 1) \div size) |->
        SubSeq(bytes, (k - 1) * size + 1, Min(k * size, Len(bytes)))]

\* a long head arrives in a first segment and then in segments of
\* ReadIncrement bytes
InitLimit ==
    /\ \E wire \in LongWires : \E first \in FirstSegments :
           stream = <<SubSeq(wire, 1, first)>>
                    \o Chunks(SubSeq(wire, first + 1, Len(wire)), ReadIncrement)
    /\ Start0

SpecLimit == InitLimit /\ [][Next]_vars

\* C4: the scan never succeeds with a head longer than MAX_HEAD_LENGTH: a
\* stream whose first boundary ends after byte MAX_HEAD_LENGTH ends in an
\* error and produces no Exchange.
C4_HeadWithinLimit == scan.outcome = "found" => Len(scan.head) <= MAX_HEAD_LENGTH

----------------------------------------------------------------------------
(* The request body state, the close and upgrade decisions, the response *)

\* the state the request's framing headers declare
DeclaredState(c) ==
    IF ContainsIgnoreAsciiCase(c.request_headers, "transfer-encoding", "chunked")
    THEN [kind |-> "Chunked", current_index |-> 0, total_length |-> 0, remaining |-> 0]
    ELSE IF Has(c.request_headers, "content-length")
    THEN [kind |-> "FixedLength", current_index |-> 0,
          total_length |-> ParseLength(AsStr(c.request_headers["content-length"])),
          remaining |-> 0]
    ELSE [kind |-> "End", current_index |-> 0, total_length |-> 0, remaining |-> 0]

C12_CloseWinsOverUpgrade ==
    [][(pc = "app" /\ pc' # "app") =>
          /\ ShouldClose(conn') =>
                 /\ pc' = "done" /\ result' = "Ok(None)"
                 /\ stream' = stream /\ scan' = scan
          /\ (ShouldUpgrade(conn') /\ ~ShouldClose(conn')) <=>
                 (pc' = "done" /\ result' = "Ok(Some(upgrade))")
          /\ result' = "Ok(Some(upgrade))" => (stream' = stream /\ scan' = scan)]_vars

C12_Witness ==
    /\ pc = "done"
    /\ result = "Ok(None)"
    /\ ShouldClose(conn)
    /\ ShouldUpgrade(conn)

\* the elements of a comma-separated header value, without the white space
\* around them
Tokens(v) == IF v = "keep-alive, Upgrade" THEN {"keep-alive", "Upgrade"} ELSE {v}

\* the values of a header contain the token, whatever its case
HasToken(headers, name, token) ==
    /\ Has(headers, name)
    /\ \E i \in 1..Len(headers[name]) :
           \E t \in Tokens(headers[name][i]) : EqIgnoreAsciiCase(t, token)

\* C13: should_upgrade holds if and only if the request has an Upgrade
\* header, its Connection header has the token upgrade, in any case and as
\* one element of a comma-separated list, and the response status is 101.
C13_ShouldUpgradeIff ==
    exch.n > 0 =>
        (ShouldUpgrade(conn) <=>
            /\ Has(conn.request_headers, "upgrade")
            /\ HasToken(conn.request_headers, "connection", "upgrade")
            /\ conn.status = "101")

\* the Conn is that of an exchange whose response has been encoded
Finalized == exch.n > 0 /\ pc # "app"

\* C15: after finalize_headers the response headers hold exactly one of
\* Content-Length and Transfer-Encoding, whatever the body and whatever
\* headers the transformation set.
C15_ExactlyOneFramingHeader ==
    Finalized =>
        (Has(conn.response_headers, "content-length")
            # Has(conn.response_headers, "transfer-encoding"))

\* C16: a finalized response whose body length is known, no body included,
\* carries no Transfer-Encoding, and one whose body length is unknown
\* carries no Content-Length, whatever headers the transformation set.
C16_FramingFollowsBodyLength ==
    [][(pc = "app" /\ pc' # "app") =>
          /\ BodyLen(conn) # None => ~Has(conn'.response_headers, "transfer-encoding")
          /\ BodyLen(conn) = None => ~Has(conn'.response_headers, "content-length")]_vars

NotBody(line) == line.kind # "body"

\* C17: for a HEAD request encode writes the status line, the header lines
\* and the blank line and nothing of the body after it, and these are the
\* lines it would write for the same Conn under another method.
C17_HeadWritesNoBody ==
    [][(pc = "app" /\ pc' # "app" /\ conn.method = "HEAD") =>
          LET sent == SubSeq(written', Len(written) + 1, Len(written'))
              other == Encoded([conn EXCEPT !.method = "GET"])
          IN  /\ sent[Len(sent)] = BlankLine
              /\ sent = SelectSeq(other, NotBody)]_vars

C17_Witness ==
    /\ Finalized
    /\ conn.method = "HEAD"
    /\ conn.response_body.some
    /\ ~conn.response_body.known
    /\ written[Len(written)] = BlankLine

\* the place of a written line in the order of an exchange
Rank(line) ==
    CASE line.kind = "interim" -> 0
      [] line.kind = "status" -> 1
      [] line.kind = "header" -> 2
      [] line.kind = "blank" -> 3
      [] line.kind = "body" -> 4

CountKind(w, kind) == Cardinality({i \in 1..Len(w) : w[i].kind = kind})

\* what was written since the head was parsed is a whole response, in order
ResponseComplete ==
    /\ \A i, j \in 1..Len(written) : i < j => Rank(written[i]) <= Rank(written[j])
    /\ CountKind(written, "status") = 1
    /\ CountKind(written, "blank") = 1
    /\ conn.method = "HEAD" => CountKind(written, "body") = 0

\* C18: in every exchange the head is parsed, then the transformation runs
\* and nothing of the response is written before it returns, then the status
\* line, the header lines, the blank line and the body are written in this
\* order, and only then the close or upgrade decision is taken or the next
\* head is read.
C18_ExchangeIsSerialized ==
    /\ pc = "app" => \A i \in 1..Len(written) : written[i].kind = "interim"
    /\ Finalized => ResponseComplete
    /\ (exch.n > 0 /\ scan.outcome = "scanning") => (pc = "head" /\ ResponseComplete)
    /\ (exch.n = 0 /\ pc # "app") => written = <<>>

C18_Witness ==
    /\ exch.n > 0
    /\ pc = "head"
    /\ scan.read # <<>>
    /\ ResponseComplete
    /\ CountKind(written, "body") > 0
    /\ CountKind(written, "header") > 2

RECURSIVE Orders(_)
\* the sequences that hold each element of S once
Orders(S) ==
    IF S = {} THEN {<<>>}
    ELSE UNION {{<<x>> \o o : o \in Orders(S \ {x})} : x \in S}

\* the names of the header lines of w, in the order of the lines
NamesWritten(w) ==
    LET lines == SelectSeq(w, LAMBDA l : l.kind = "header")
    IN  [i \in 1..Len(lines) |-> lines[i].name]

\* the values of the header lines of w with this name, in the order of the lines
ValuesWritten(w, name) ==
    LET lines == SelectSeq(w, LAMBDA l : l.kind = "header" /\ l.name = name)
    IN  [i \in 1..Len(lines) |-> lines[i].value]

\* C19: send_headers writes the status line, then one line per value of
\* every header with the names in lexicographic order, the values of one name
\* on consecutive lines, then one blank line; the order of the names is the
\* same for every order in which the headers are iterated.
C19_HeaderOrder ==
    [][(pc = "app" /\ pc' # "app") =>
          LET sent == SubSeq(written', Len(written) + 1, Len(written'))
              head == SelectSeq(sent, NotBody)
              names == NamesWritten(head)
              present == {n \in HeaderNames : Present(conn'.response_headers, n)}
          IN  /\ head[1].kind = "status"
              /\ head[Len(head)].kind = "blank"
              /\ \A i \in 2..(Len(head) - 1) : head[i].kind = "header"
              /\ SubSeq(sent, 1, Len(head)) = head
              /\ \A i, j \in 1..Len(names) :
                     i < j => (names[i] = names[j] \/ Before(names[i], names[j]))
              /\ \A n \in HeaderNames :
                     ValuesWritten(head, n) = conn'.response_headers[n]
              /\ \A o \in Orders(present) :
                     HeaderLinesOf(conn'.response_headers, SortByName(o))
                         = SubSeq(head, 2, Len(head) - 1)]_vars

C19_Witness ==
    /\ Finalized
    /\ Len(conn.response_headers["transfer-encoding"]) = 2
    /\ Present(conn.response_headers, "connection")
    /\ Present(conn.response_headers, "content-type")
    /\ Len(NamesWritten(written)) >= 5

\* the values of the parsed header lines with this name, in their order
ValuesParsed(list, name) ==
    LET of == SelectSeq(list, LAMBDA h : h[1] = name)
    IN  [i \in 1..Len(of) |-> of[i][2]]

\* C20: the request headers of a new Conn hold, for every name, the values
\* of all header lines of the head with that name, in order of appearance.
C20_AllValuesKept ==
    (pc = "app" /\ exch.touches = 0) =>
        \A n \in HeaderNames :
            conn.request_headers[n] = ValuesParsed(Httparse(scan.head).headers, n)

----------------------------------------------------------------------------
(* Defaults of the response, termination, the bytes of the request body *)

\* C21: when the transformation set no status, the status line written is
\* that of 404 Not Found; a response with status 200, no body and no header
\* set by the transformation starts with HTTP/1.1 200 OK and carries
\* Content-Length: 0.
C21_DefaultStatusAndFraming ==
    [][(pc = "app" /\ pc' # "app") =>
          LET sent == SubSeq(written', Len(written) + 1, Len(written'))
          IN  /\ conn.status = "" =>
                     (sent[1].kind = "status" /\ sent[1].name = "HTTP/1.1 404 Not Found")
              /\ (conn.status = "200" /\ ~conn.response_body.some
                     /\ conn.response_headers = NoHeaders) =>
                     /\ sent[1].kind = "status" /\ sent[1].name = "HTTP/1.1 200 OK"
                     /\ ValuesWritten(sent, "content-length") = <<"0">>]_vars

C21_Witness ==
    /\ Finalized
    /\ conn.status = ""
    /\ written[1].name = "HTTP/1.1 404 Not Found"
    /\ ValuesWritten(written, "content-length") = <<"0">>

\* C22: after finalize_headers the response headers hold a Date header, and
\* a Date the transformation set is the one they hold.
C22_DateHeader ==
    [][(pc = "app" /\ pc' # "app") =>
          /\ Has(conn'.response_headers, "date")
          /\ Has(conn.response_headers, "date") =>
                 conn'.response_headers["date"] = conn.response_headers["date"]
          /\ ValuesWritten(SubSeq(written', Len(written) + 1, Len(written')), "date")
                 = conn'.response_headers["date"]]_vars

C22_Witness ==
    /\ Finalized
    /\ conn.response_headers["date"] = <<"then">>
    /\ ValuesWritten(written, "date") = <<"then">>

\* what Conn::map returns: Ok(None), Ok(Some(upgrade)) or an error
Returned ==
    result \in {"Ok(None)", "Ok(Some(upgrade))", "Err(Httparse)", "Err(PartialHead)",
                "Err(UnsupportedVersion)", "Err(ClosedByClient)", "Err(HeadersTooLong)"}

\* C24: a run of Conn::map that has ended has returned Ok(None),
\* Ok(Some(upgrade)) or an error, and every head scan that has ended has ended
\* with success, ClosedByClient, PartialHead or HeadersTooLong: none has panicked
C24_MapReturns ==
    /\ pc = "done" => Returned
    /\ scan.outcome \in {"scanning", "found", "ClosedByClient", "PartialHead", "HeadersTooLong"}

\* the lines of the body among the lines w
BodyWritten(w) == SelectSeq(w, LAMBDA l : l.kind = "body")

\* the lines w are chunked frames that end with the last chunk 0\r\n\r\n
IsChunked(w) ==
    /\ w # <<>>
    /\ w[Len(w)].name = "last-chunk"
    /\ \A i \in 1..(Len(w) - 1) : w[i].name = "chunk"

\* the lines w are raw bytes, as many as a Content-Length line of sent says
IsRawOfLength(w, sent) ==
    /\ \A i \in 1..Len(w) : w[i].name = "raw"
    /\ Len(w) <= 1
    /\ ValuesWritten(sent, "content-length")
           = <<ToString(IF w = <<>> THEN 0 ELSE DataLen(w[1].value))>>

\* C25: for a request other than HEAD, encode writes the body as chunked
\* frames ending with the last chunk exactly when the header lines it wrote
\* hold Transfer-Encoding: chunked, and otherwise as raw bytes whose number is
\* the Content-Length it wrote, whatever headers the transformation set.
C25_FramingAgreesWithBody ==
    [][(pc = "app" /\ pc' # "app" /\ conn.method # "HEAD") =>
          LET sent == SubSeq(written', Len(written) + 1, Len(written'))
              chunked == \E i \in 1..Len(sent) :
                             /\ sent[i].kind = "header"
                             /\ sent[i].name = "transfer-encoding"
                             /\ EqIgnoreAsciiCase(sent[i].value, "chunked")
          IN  /\ IsChunked(BodyWritten(sent)) <=> chunked
              /\ ~chunked => IsRawOfLength(BodyWritten(sent), sent)]_vars

RECURSIVE Concat(_)
\* the bytes of the segments strm, in order
Concat(strm) == IF strm = <<>> THEN <<>> ELSE strm[1] \o Concat(Tail(strm))

\* the bytes of the body that the request's Content-Length declares and that
\* have not been read
Unread(c) ==
    LET declared == DeclaredState(c)
        s == c.request_body_state
    IN  IF declared.kind # "FixedLength" \/ declared.total_length = None THEN 0
        ELSE IF s.kind = "Start" THEN declared.total_length
        ELSE IF s.kind = "FixedLength" THEN s.total_length - s.current_index
        ELSE 0

\* C26: when finish goes on to the next request, the scan of its head starts
\* at the first byte after the body that the Content-Length of the request
\* just answered declares: the bytes of that body that were not read are
\* skipped, whether the transformation read all of the body or none of it.
C26_NextHeadAfterBody ==
    [][(pc = "app" /\ pc' = "head") =>
          LET before == conn.buffer \o Concat(stream)
              skip == Min(Unread(conn), Len(before))
          IN  scan'.carry \o Concat(stream') = SubSeq(before, skip + 1, Len(before))]_vars

----------------------------------------------------------------------------
(* trillium::Conn, the wrapper around a trillium_http::Conn *)

MaxPath == 2

\* impl From<trillium_http::Conn<T>> for Conn
From(inner) == [inner |-> inner, halted |-> FALSE, path |-> <<>>]

\* status.try_into().ok(): None for a number that is no status code
TryIntoStatus(status) == IF status \in {"200", "418"} THEN status ELSE ""

\* trillium::Conn::set_status
set_status(w, status) == [w EXCEPT !.inner.status = TryIntoStatus(status)]

\* trillium::Conn::with_status
with_status(w, status) == set_status(w, status)

\* trillium::Conn::set_body; the inner call is Conn::set_body
set_body(w, body) == [w EXCEPT !.inner = SetBody(@, body)]

\* trillium::Conn::with_body
with_body(w, body) == set_body(w, body)

\* trillium::Conn::set_state: one slot for each type
set_state(w, val) ==
    [w EXCEPT !.inner.state = {e \in @ : e[1] # val[1]} \cup {val}]

\* trillium::Conn::with_state
with_state(w, val) == set_state(w, val)

\* trillium::Conn::with_header
with_header(w, header_name, header_value) ==
    [w EXCEPT !.inner.response_headers = InsertValues(@, header_name, header_value)]

set_halted_Never(w, halted) == w

\* trillium::Conn::set_halted
set_halted(w, halted) == [w EXCEPT !.halted = halted]

\* trillium::Conn::halt
halt(w) == set_halted(w, TRUE)

\* trillium::Conn::ok
ok(w, body) == halt(with_body(with_status(w, "200"), body))

\* trillium::Conn::push_path
push_path(w, path) == [w EXCEPT !.path = Append(@, path)]

\* trillium::Conn::pop_path: Vec::pop leaves an empty path empty
pop_path(w) ==
    [w EXCEPT !.path = IF @ = <<>> THEN @ ELSE SubSeq(@, 1, Len(@) - 1)]

\* a handler holds the trillium::Conn made from the Conn of a parsed request
InitWrapper ==
    /\ stream = <<>>
    /\ written = <<>>
    /\ pc = "app"
    /\ buf = <<>>
    /\ len = 0
    /\ conn = From(ConnNew(Get, <<>>).conn)
    /\ result = "running"
    /\ scan = NewScan(<<>>)
    /\ exch = NewExchange(1, FALSE)

Handler == UNCHANGED <<stream, written, pc, buf, len, result, scan, exch>>

Call_ok == Handler /\ \E body \in Bodies : conn' = ok(conn, body)

Call_set_status == Handler /\ \E status \in {"200", "418", "1000"} : conn' = set_status(conn, status)

Call_with_status == Handler /\ \E status \in {"200", "418", "1000"} : conn' = with_status(conn, status)

Call_set_body == Handler /\ \E body \in Bodies : conn' = set_body(conn, body)

Call_with_body == Handler /\ \E body \in Bodies : conn' = with_body(conn, body)

Call_with_state == Handler /\ \E val \in {<<"MyState", 1>>, <<"MyState", 2>>} : conn' = with_state(conn, val)

Call_with_header ==
    Handler /\ \E h \in {<<"content-type", <<"application/html">>>>, <<"connection", <<"close">>>>} :
                   conn' = with_header(conn, h[1], h[2])

Call_halt == Handler /\ conn' = halt(conn)

Call_set_halted == Handler /\ \E halted \in BOOLEAN : conn' = set_halted(conn, halted)

Call_push_path == Handler /\ Len(conn.path) < MaxPath /\ conn' = push_path(conn, "segment")

Call_pop_path == Handler /\ conn' = pop_path(conn)

NextWrapper ==
    \/ Call_ok
    \/ Call_set_status
    \/ Call_with_status
    \/ Call_set_body
    \/ Call_with_body
    \/ Call_with_state
    \/ Call_with_header
    \/ Call_halt
    \/ Call_set_halted
    \/ Call_push_path
    \/ Call_pop_path

SpecWrapper == InitWrapper /\ [][NextWrapper]_vars

\* C23: the wrapper starts with halted = false; halted becomes true only in
\* a call of halt, ok or set_halted(true); with_status, set_status, with_body,
\* set_body, with_header, with_state, push_path and pop_path leave halted as
\* it is; and ok(body) leaves status 200, the body (with its content type when
\* none was set), halted = true and everything else as it was
C23_HaltedFlag ==
    /\ ~conn.halted
    /\ [][(conn'.halted /\ ~conn.halted) =>
              (Call_halt \/ Call_ok \/ conn' = set_halted(conn, TRUE))]_vars
    /\ [][(\/ Call_with_status \/ Call_set_status \/ Call_with_body \/ Call_set_body
           \/ Call_with_header \/ Call_with_state \/ Call_push_path \/ Call_pop_path)
              => conn'.halted = conn.halted]_vars
    /\ [][\A body \in Bodies :
              conn' = ok(conn, body) =>
                  /\ conn'.halted
                  /\ conn'.inner.status = "200"
                  /\ conn'.inner.response_body = body
                  /\ conn'.inner.response_headers["content-type"] =
                         IF Has(conn.inner.response_headers, "content-type")
                         THEN conn.inner.response_headers["content-type"]
                         ELSE <<"text/plain">>
                  /\ conn' = [conn EXCEPT !.halted = TRUE, !.inner.status = "200",
                                          !.inner.response_body = body,
                                          !.inner.response_headers = conn'.inner.response_headers]
                  /\ conn' = halt(with_body(with_status(conn, "200"), body))]_vars

C23_Witness ==
    /\ conn.halted
    /\ conn.inner.status = "200"
    /\ conn.inner.response_body.some
    /\ conn.path # <<>>
    /\ conn.inner.state # {}

====
